---- MODULE Spec2Model ----
(***************************************************************************)
(* A model of the VGA text console of rust-os (src/src/vga_buffer.rs):     *)
(* the Writer over the 25 x 80 memory-mapped grid, and the global WRITER   *)
(* behind its spin lock.                                                   *)
(***************************************************************************)
EXTENDS Integers, Sequences, FiniteSets, TLC

\* ------------------------------------------------------------ constants
BUFFER_HEIGHT == 25
BUFFER_WIDTH == 80

\* The number of writer operations a behaviour of Spec performs.
MaxOps == 3
\* The number of prints ordinary code issues in a behaviour of SpecPrint.
MaxPrints == 2
\* The number of times a reentrant call site is entered in a behaviour of SpecPrint.
MaxEntries == 1

Newline == 10
Space == 32
Placeholder == 254

Printable == 32..126

\* Color (enum, repr(u8)): the numeric codes of the shades the model uses.
Black == 0
LightGray == 7
Yellow == 14
ColorCodes == 0..15

\* ------------------------------------------------------------ ColorCode
RECURSIVE BitOr(_, _, _)
\* Bitwise OR of two naturals, bit by bit over the lowest n bits.
BitOr(a, b, n) ==
    IF n = 0 THEN 0
    ELSE (IF (a % 2 = 1) \/ (b % 2 = 1) THEN 1 ELSE 0)
         + 2 * BitOr(a \div 2, b \div 2, n - 1)

\* ColorCode::new with the two colors in each other's place
ColorCode_new_swapped(foreground, background) ==
    BitOr((foreground * 16) % 256, background, 8)

\* ColorCode::new: (background as u8) << 4 | (foreground as u8), in u8.
ColorCode_new(foreground, background) ==
    BitOr((background * 16) % 256, foreground, 8)

ScreenChar(byte, color) == [ascii_character |-> byte, color_code |-> color]

\* ------------------------------------------------------------ state
VARIABLES
    column_position,   \* Writer.column_position
    color_code,        \* Writer.color_code
    buffer,            \* Writer.buffer: the grid, buffer[row][col]
    panicked,          \* an index into chars was out of bounds (index panic)
    stores,            \* the character cells stored by write_byte in the last operation
    scrolls,           \* the number of new_line calls so far
    hist,              \* the operations performed so far, in order
    pre,               \* the writer as it was before the last operation
    boot,              \* which content the device memory held at start
    locked,            \* the flag of the spin lock around WRITER
    frames,            \* the call sites in progress, innermost last: the last one runs
    owners,            \* the requests that wrote to the grid, in the order of their writes
    nreq,              \* the number of print requests issued so far
    nprints,           \* the number of prints ordinary code has issued
    nentries,          \* the number of times a reentrant call site was entered
    test,              \* the progress of test_println_output
    inits,             \* the number of times the initialiser of WRITER has run
    result             \* the fmt::Result the last write_str returned

wvars == <<column_position, color_code, buffer, panicked, stores, scrolls>>
hvars == <<hist, pre>>
cvars == <<locked, frames, owners, nreq, nprints, nentries, test>>
svars == <<inits, result>>
vars == <<column_position, color_code, buffer, panicked, stores, scrolls, hist, pre, boot,
          locked, frames, owners, nreq, nprints, nentries, test, inits, result>>

Rows == 0..(BUFFER_HEIGHT - 1)
Cols == 0..(BUFFER_WIDTH - 1)

\* The device memory before the writer touches it: the writer is built over
\* whatever the screen holds. 0: a cleared screen; 1: 25 rows of distinct text.
BootIds == {0, 1}
BootGrid(k) ==
    [r \in Rows |-> [c \in Cols |->
        IF k = 0 THEN ScreenChar(Space, ColorCode_new(LightGray, Black))
        ELSE ScreenChar(33 + ((3 * r + c) % 90), ColorCode_new(LightGray, Black))]]

\* The writer as one value, as the methods see it through &mut self.
Self ==
    [column_position |-> column_position, color_code |-> color_code,
     buffer |-> buffer, panicked |-> panicked, stores |-> stores, scrolls |-> scrolls]

\* ------------------------------------------------------------ Buffer access
\* a write that also lands in the cell above
chars_write_above(w, row, col, ch) ==
    IF w.panicked THEN w
    ELSE IF row \in Rows /\ col \in Cols
    THEN [w EXCEPT !.buffer[row][col] = ch, !.buffer[(row + BUFFER_HEIGHT - 1) % BUFFER_HEIGHT][col] = ch]
    ELSE [w EXCEPT !.panicked = TRUE]

\* self.buffer.chars[row][col].write(ch): an index out of range panics.
chars_write(w, row, col, ch) ==
    IF w.panicked THEN w
    ELSE IF row \in Rows /\ col \in Cols
    THEN [w EXCEPT !.buffer[row][col] = ch]
    ELSE [w EXCEPT !.panicked = TRUE]

\* ------------------------------------------------------------ Writer
\* for col in 0..BUFFER_WIDTH { self.buffer.chars[row][col].write(blank); }
\* The columns of the loop are independent of each other: the row is written
\* cell by cell, each cell from the same blank.
clear_cols(w, row, blank) ==
    IF w.panicked THEN w
    ELSE IF row \in Rows /\ (0..(BUFFER_WIDTH - 1)) \subseteq Cols
    THEN [w EXCEPT !.buffer[row] = [col \in 0..(BUFFER_WIDTH - 1) |-> blank]]
    ELSE [w EXCEPT !.panicked = TRUE]

\* clear_row blanking with the attribute of a cleared screen, not the writer's
clear_row_gray(w, row) ==
    clear_cols(w, row, ScreenChar(Space, ColorCode_new(LightGray, Black)))

\* Writer::clear_row
clear_row(w, row) ==
    clear_cols(w, row, ScreenChar(Space, w.color_code))

\* the inner loop of new_line: for col in 0..BUFFER_WIDTH {
\*     let character = chars[row][col].read(); chars[row - 1][col].write(character) }
\* Each cell of row - 1 is written from the cell below it, which the loop over
\* the columns of this row does not write.
shift_cols(w, row) ==
    IF w.panicked THEN w
    ELSE IF row \in Rows /\ (row - 1) \in Rows /\ (0..(BUFFER_WIDTH - 1)) \subseteq Cols
    THEN [w EXCEPT !.buffer[row - 1] = [col \in 0..(BUFFER_WIDTH - 1) |-> w.buffer[row][col]]]
    ELSE [w EXCEPT !.panicked = TRUE]

RECURSIVE shift_rows(_, _, _)
\* the outer loop of new_line: for row in 1..BUFFER_HEIGHT, rows lo..hi in this
\* order (the range is halved so that the evaluation nests only logarithmically deep)
shift_rows(w, lo, hi) ==
    IF lo > hi \/ w.panicked THEN w
    ELSE IF lo = hi THEN shift_cols(w, lo)
    ELSE LET mid == (lo + hi) \div 2
         IN  shift_rows(shift_rows(w, lo, mid), mid + 1, hi)

\* new_line without its call of clear_row
new_line_no_clear(w) ==
    IF w.panicked THEN w
    ELSE LET shifted == shift_rows(w, 1, BUFFER_HEIGHT - 1)
         IN  IF shifted.panicked THEN shifted
             ELSE [shifted EXCEPT !.column_position = 0, !.scrolls = @ + 1]

\* new_line without self.column_position = 0
new_line_keep_column(w) ==
    IF w.panicked THEN w
    ELSE LET cleared == clear_row(shift_rows(w, 1, BUFFER_HEIGHT - 1), BUFFER_HEIGHT - 1)
         IN  IF cleared.panicked THEN cleared
             ELSE [cleared EXCEPT !.scrolls = @ + 1]

\* Writer::new_line
new_line(w) ==
    IF w.panicked THEN w
    ELSE LET cleared == clear_row(shift_rows(w, 1, BUFFER_HEIGHT - 1), BUFFER_HEIGHT - 1)
         IN  IF cleared.panicked THEN cleared
             ELSE [cleared EXCEPT !.column_position = 0, !.scrolls = @ + 1]

\* the check of the full row with > in place of >=
wrap_if_past(w) ==
    IF w.column_position > BUFFER_WIDTH THEN new_line(w) ELSE w

\* the full row handled by returning the cursor to column 0, without new_line
wrap_no_scroll(w) ==
    IF w.column_position >= BUFFER_WIDTH THEN [w EXCEPT !.column_position = 0] ELSE w

\* if self.column_position >= BUFFER_WIDTH { self.new_line(); }
wrap_if_full(w) ==
    IF w.column_position >= BUFFER_WIDTH THEN new_line(w) ELSE w

\* put_char storing into the first row instead of the last
put_char_first_row(w, byte) ==
    LET w1 == wrap_if_full(w)
        row == 0
        col == w1.column_position
        w2 == chars_write(w1, row, col, ScreenChar(byte, w1.color_code))
    IN  IF w2.panicked THEN w2
        ELSE [w2 EXCEPT !.column_position = @ + 1,
                        !.stores = Append(@, [row |-> row, col |-> col,
                                              gen |-> w1.scrolls,
                                              cell |-> ScreenChar(byte, w1.color_code)])]

\* put_char without self.column_position += 1
put_char_no_advance(w, byte) ==
    LET w1 == wrap_if_full(w)
        row == BUFFER_HEIGHT - 1
        col == w1.column_position
        w2 == chars_write(w1, row, col, ScreenChar(byte, w1.color_code))
    IN  IF w2.panicked THEN w2
        ELSE [w2 EXCEPT !.stores = Append(@, [row |-> row, col |-> col,
                                              gen |-> w1.scrolls,
                                              cell |-> ScreenChar(byte, w1.color_code)])]

\* put_char wrapping as soon as the stored byte has filled the row
put_char_eager_wrap(w, byte) ==
    LET w1 == wrap_if_full(w)
        row == BUFFER_HEIGHT - 1
        col == w1.column_position
        w2 == chars_write(w1, row, col, ScreenChar(byte, w1.color_code))
    IN  IF w2.panicked THEN w2
        ELSE wrap_if_full([w2 EXCEPT !.column_position = @ + 1,
                                     !.stores = Append(@, [row |-> row, col |-> col,
                                                           gen |-> w1.scrolls,
                                                           cell |-> ScreenChar(byte, w1.color_code)])])

\* the byte => { ... } arm of write_byte: wrap, store the cell, advance
put_char(w, byte) ==
    LET w1 == wrap_if_full(w)
        row == BUFFER_HEIGHT - 1
        col == w1.column_position
        w2 == chars_write(w1, row, col, ScreenChar(byte, w1.color_code))
    IN  IF w2.panicked THEN w2
        ELSE [w2 EXCEPT !.column_position = @ + 1,
                        !.stores = Append(@, [row |-> row, col |-> col,
                                              gen |-> w1.scrolls,
                                              cell |-> ScreenChar(byte, w1.color_code)])]

\* Writer::write_byte
write_byte(w, byte) ==
    IF w.panicked THEN w
    ELSE IF byte = Newline THEN new_line(w)
    ELSE put_char(w, byte)

\* the match of write_string passing every byte on unchanged
filter_none(byte) == byte

\* the match of write_string replacing the other bytes by a space
filter_space(byte) ==
    IF byte \in Printable \/ byte = Newline THEN byte ELSE Space

\* the match of write_string: printable bytes and newline pass, others become 0xfe
filter_byte(byte) ==
    IF byte \in Printable \/ byte = Newline THEN byte ELSE Placeholder

\* the loop of write_string handling a character, not a byte: the continuation
\* bytes of a multi-byte character give no cell
write_string_char(w, byte) ==
    IF byte \in 128..191 THEN w ELSE write_byte(w, filter_byte(byte))

\* the body of the loop of write_string, for one byte
write_string_byte(w, byte) == write_byte(w, filter_byte(byte))

RECURSIVE write_bytes(_, _, _, _)
\* for byte in s.bytes() { match byte { ... } }, bytes lo..hi of s in this order
\* (the range is halved so that the evaluation nests only logarithmically deep)
write_bytes(w, s, lo, hi) ==
    IF lo > hi \/ w.panicked THEN w
    ELSE IF lo = hi THEN write_string_byte(w, s[lo])
    ELSE LET mid == (lo + hi) \div 2
         IN  write_bytes(write_bytes(w, s, lo, mid), s, mid + 1, hi)

\* Writer::write_string
write_string(w, s) == write_bytes(w, s, 1, Len(s))

\* write_str refusing a string with a byte outside ASCII, writing nothing
write_str_ascii(w, s) ==
    IF \E i \in 1..Len(s) : s[i] > 127
    THEN [writer |-> w, result |-> "Err"]
    ELSE [writer |-> write_string(w, s), result |-> "Ok"]

\* fmt::Write::write_str for Writer: self.write_string(s); Ok(())
write_str(w, s) == [writer |-> write_string(w, s), result |-> "Ok"]

\* .unwrap() on the fmt::Result: an Err panics
unwrap(w, r) == IF r = "Ok" THEN w ELSE [w EXCEPT !.panicked = TRUE]

\* ------------------------------------------------------------ inputs
\* byte strings (the bytes of a &str)
Hello == <<72, 101, 108, 108, 111>>
World == <<32, 87, 111, 114, 108, 100, 33>>
\* a line that fills the row exactly
FullLine == [i \in 1..BUFFER_WIDTH |-> 48 + (i % 10)]
\* "e" with an acute accent: two bytes in UTF-8
EAcute == <<195, 169>>
\* text around a newline, with a control byte (tab)
TwoLines == <<97, 9, 10, 98>>
\* more lines than the grid has rows: "ab\n" 26 times
ManyLines == [i \in 1..(3 * (BUFFER_HEIGHT + 1)) |-> IF i % 3 = 0 THEN Newline ELSE 96 + (i % 3)]

ByteInputs == {Newline, 65, 200}
\* the strings handed to _print in Spec
FmtInputs == {EAcute}
StringInputs == {Hello, World, FullLine, EAcute, TwoLines, ManyLines, <<Newline>>}

\* ------------------------------------------------------------ WRITER
\* a lock that lets every caller in
lock_always(l) == TRUE

\* WRITER.lock(): the spin lock is taken only when it is free; a caller that
\* finds it held spins until it is released.
lock_acquirable(l) == ~l

\* an initialiser that runs at every access
once_always(n) == TRUE

\* lazy_static: the initialiser runs at the first access of WRITER, when it has
\* not run before
once_incomplete(n) == n = 0

\* the Writer the initialiser of WRITER builds
WRITER_new == [column_position |-> 0, color_code |-> ColorCode_new(Yellow, Black)]

\* ------------------------------------------------------------ Spec
MainFrame == [site |-> "main", pc |-> "run", s |-> <<>>, i |-> 0, id |-> 0]
NoTest == [phase |-> "none", s |-> <<>>, k |-> 0, col |-> 0]

\* WRITER as its initialiser builds it, over the device memory, with the lock free
\* and ordinary code running.
Init ==
    /\ boot \in BootIds
    /\ column_position = 0
    /\ color_code = ColorCode_new(Yellow, Black)
    /\ buffer = BootGrid(boot)
    /\ panicked = FALSE
    /\ stores = <<>>
    /\ scrolls = 0
    /\ hist = <<>>
    /\ pre = [column_position |-> 0, color_code |-> ColorCode_new(Yellow, Black),
              buffer |-> BootGrid(boot), scrolls |-> 0]
    /\ locked = FALSE
    /\ frames = <<MainFrame>>
    /\ owners = <<>>
    /\ nreq = 0
    /\ nprints = 0
    /\ nentries = 0
    /\ test = NoTest
    /\ inits = 1
    /\ result = "Ok"

Snapshot ==
    [column_position |-> column_position, color_code |-> color_code,
     buffer |-> buffer, scrolls |-> scrolls]

\* The fields of the writer after an operation that returned w.
Commit(w) ==
    /\ column_position' = w.column_position
    /\ color_code' = w.color_code
    /\ buffer' = w.buffer
    /\ panicked' = w.panicked
    /\ stores' = w.stores
    /\ scrolls' = w.scrolls

CanCall == ~panicked /\ Len(hist) < MaxOps

\* a call of Writer::write_byte
WriteByte(b) ==
    /\ CanCall
    /\ Commit(write_byte([Self EXCEPT !.stores = <<>>], b))
    /\ hist' = Append(hist, [op |-> "write_byte", s |-> <<b>>, col |-> column_position])
    /\ pre' = Snapshot
    /\ UNCHANGED <<boot, cvars, svars>>

\* a call of Writer::write_string
WriteString(s) ==
    /\ CanCall
    /\ Commit(write_string([Self EXCEPT !.stores = <<>>], s))
    /\ hist' = Append(hist, [op |-> "write_string", s |-> s, col |-> column_position])
    /\ pre' = Snapshot
    /\ UNCHANGED <<boot, cvars, svars>>

\* a call of _print with arguments that format to s, no other call site printing:
\* WRITER.lock().write_fmt(args).unwrap(), the guard dropped at the end
_print(s) ==
    /\ CanCall
    /\ inits > 0
    /\ lock_acquirable(locked)
    /\ LET r == write_str([Self EXCEPT !.stores = <<>>], s)
       IN  /\ Commit(unwrap(r.writer, r.result))
           /\ result' = r.result
    /\ hist' = Append(hist, [op |-> "print", s |-> s, col |-> column_position])
    /\ pre' = Snapshot
    /\ UNCHANGED <<boot, cvars, inits>>

Next ==
    \/ \E b \in ByteInputs : WriteByte(b)
    \/ \E s \in StringInputs : WriteString(s)
    \/ \E s \in FmtInputs : _print(s)

Spec == Init /\ [][Next]_vars


\* ------------------------------------------------------------ SpecPrint
\* The global WRITER behind its lock, and the call sites that print through it.
\* There is one thread of control: ordinary code, which a reentrant call site
\* (an interrupt handler, the panic handler) may interrupt at any point. The
\* innermost call site runs; the ones below it wait for it to return.
PrintInputs == {<<72, 105>>, <<111, 107, Newline>>}
TestInputs == {<<83, 111, 109, 101>>}
HandlerInputs == {<<33, Newline>>}
PanicMessage == <<80, Newline>>

Top == frames[Len(frames)]
SetTop(f) == [frames EXCEPT ![Len(frames)] = f]
Pop == SubSeq(frames, 1, Len(frames) - 1)
HasSite(site) == \E n \in 1..Len(frames) : frames[n].site = site

\* the frame of a call of _print with the bytes s that the arguments format to
PrintCall(f, s) == [f EXCEPT !.pc = "lock", !.s = s, !.i = 1, !.id = nreq + 1]

\* print!(..) in ordinary code
MainPrint(s) ==
    /\ Top.site = "main" /\ Top.pc = "run"
    /\ test.phase \in {"none", "passed"}
    /\ nprints < MaxPrints
    /\ frames' = SetTop(PrintCall(Top, s))
    /\ nreq' = nreq + 1
    /\ nprints' = nprints + 1
    /\ UNCHANGED <<wvars, hvars, boot, inits, result, locked, owners, nentries, test>>

\* test_println_output: println!("{}", s), s and then the newline
MainTest(s) ==
    /\ Top.site = "main" /\ Top.pc = "run"
    /\ test.phase = "none"
    /\ frames' = SetTop(PrintCall(Top, s \o <<Newline>>))
    /\ nreq' = nreq + 1
    /\ test' = [phase |-> "printing", s |-> s, k |-> 0, col |-> column_position]
    /\ UNCHANGED <<wvars, hvars, boot, inits, result, locked, owners, nprints, nentries>>

\* the first access of WRITER, by whichever call site gets to it first, runs the
\* initialiser; the grid is the device memory as it is
Initialise ==
    /\ Top.pc = "lock"
    /\ once_incomplete(inits)
    /\ column_position' = WRITER_new.column_position
    /\ color_code' = WRITER_new.color_code
    /\ inits' = inits + 1
    /\ UNCHANGED <<buffer, panicked, stores, scrolls, hvars, boot, result, cvars>>

\* _print: WRITER.lock() returns the guard
Acquire ==
    /\ Top.pc = "lock"
    /\ inits > 0
    /\ lock_acquirable(locked)
    /\ locked' = TRUE
    /\ frames' = SetTop([Top EXCEPT !.pc = "write"])
    /\ stores' = <<>>
    /\ UNCHANGED <<column_position, color_code, buffer, panicked, scrolls,
                   hvars, boot, inits, result, owners, nreq, nprints, nentries, test>>

\* _print: write_fmt hands the next byte to the loop of write_string
WriteStep ==
    /\ Top.pc = "write"
    /\ Top.i <= Len(Top.s)
    /\ Commit(write_string_byte(Self, Top.s[Top.i]))
    /\ frames' = SetTop([Top EXCEPT !.i = @ + 1])
    /\ owners' = IF owners # <<>> /\ owners[Len(owners)] = Top.id
                 THEN owners ELSE Append(owners, Top.id)
    /\ UNCHANGED <<hvars, boot, inits, result, locked, nreq, nprints, nentries, test>>

\* _print returning with the guard leaked: the lock stays held
Release_keep_lock ==
    /\ Top.pc = "write"
    /\ Top.i > Len(Top.s)
    /\ locked' = locked
    /\ frames' = IF Top.site = "handler" THEN Pop
                 ELSE IF Top.site = "panic" THEN SetTop([Top EXCEPT !.pc = "halt"])
                 ELSE IF test.phase = "printing" THEN SetTop([Top EXCEPT !.pc = "read_lock"])
                 ELSE SetTop([Top EXCEPT !.pc = "run"])
    /\ test' = IF Top.site = "main" /\ test.phase = "printing"
               THEN [test EXCEPT !.phase = "reading", !.k = 1] ELSE test
    /\ UNCHANGED <<wvars, hvars, boot, inits, result, owners, nreq, nprints, nentries>>

\* _print: write_fmt has returned, the guard is dropped and _print returns
Release ==
    /\ Top.pc = "write"
    /\ Top.i > Len(Top.s)
    /\ locked' = FALSE
    /\ frames' = IF Top.site = "handler" THEN Pop
                 ELSE IF Top.site = "panic" THEN SetTop([Top EXCEPT !.pc = "halt"])
                 ELSE IF test.phase = "printing" THEN SetTop([Top EXCEPT !.pc = "read_lock"])
                 ELSE SetTop([Top EXCEPT !.pc = "run"])
    /\ test' = IF Top.site = "main" /\ test.phase = "printing"
               THEN [test EXCEPT !.phase = "reading", !.k = 1] ELSE test
    /\ UNCHANGED <<wvars, hvars, boot, inits, result, owners, nreq, nprints, nentries>>

\* test_println_output: WRITER.lock() for the read of one character
ReadAcquire ==
    /\ Top.pc = "read_lock"
    /\ lock_acquirable(locked)
    /\ locked' = TRUE
    /\ frames' = SetTop([Top EXCEPT !.pc = "read"])
    /\ UNCHANGED <<wvars, hvars, boot, inits, result, owners, nreq, nprints, nentries, test>>

\* test_println_output: the read of chars[BUFFER_HEIGHT - 2][i], the drop of the
\* guard at the end of the statement, and the assert_eq on the character read;
\* a failed assertion panics
ReadCell ==
    /\ Top.pc = "read"
    /\ locked' = FALSE
    /\ LET screen_char == buffer[BUFFER_HEIGHT - 2][test.k - 1]
       IN  IF screen_char.ascii_character = test.s[test.k]
           THEN /\ frames' = SetTop([Top EXCEPT !.pc = IF test.k = Len(test.s)
                                                       THEN "run" ELSE "read_lock"])
                /\ test' = IF test.k = Len(test.s)
                           THEN [test EXCEPT !.phase = "passed"]
                           ELSE [test EXCEPT !.k = @ + 1]
                /\ nreq' = nreq
           ELSE /\ frames' = Append(SetTop([Top EXCEPT !.pc = "failed"]),
                                    PrintCall([MainFrame EXCEPT !.site = "panic"],
                                              PanicMessage))
                /\ test' = [test EXCEPT !.phase = "failed"]
                /\ nreq' = nreq + 1
    /\ UNCHANGED <<wvars, hvars, boot, inits, result, owners, nprints, nentries>>

\* a reentrant call site that returns (an interrupt handler) is entered on top
\* of ordinary code, wherever that stands, and prints
HandlerEnter(s) ==
    /\ Top.site = "main"
    /\ nentries < MaxEntries
    /\ frames' = Append(frames, PrintCall([MainFrame EXCEPT !.site = "handler"], s))
    /\ nreq' = nreq + 1
    /\ nentries' = nentries + 1
    /\ UNCHANGED <<wvars, hvars, boot, inits, result, locked, owners, nprints, test>>

\* the running code panics, wherever it stands, and the panic handler reports
\* through the print entry point before it halts
PanicEnter ==
    /\ ~HasSite("panic")
    /\ frames' = Append(frames, PrintCall([MainFrame EXCEPT !.site = "panic"],
                                          PanicMessage))
    /\ nreq' = nreq + 1
    /\ UNCHANGED <<wvars, hvars, boot, inits, result, locked, owners, nprints, nentries, test>>

\* the steps of the code that is running
Run == Initialise \/ Acquire \/ WriteStep \/ Release \/ ReadAcquire \/ ReadCell

NextPrint ==
    \/ \E s \in PrintInputs : MainPrint(s)
    \/ \E s \in TestInputs : MainTest(s)
    \/ Initialise
    \/ Acquire
    \/ WriteStep
    \/ Release
    \/ ReadAcquire
    \/ ReadCell
    \/ \E s \in HandlerInputs : HandlerEnter(s)
    \/ PanicEnter

\* WRITER before its first use: the static holds no writer yet (the fields of the
\* model are zero until the initialiser sets them), the lock is free and
\* ordinary code runs.
InitPrint ==
    /\ boot \in BootIds
    /\ column_position = 0
    /\ color_code = 0
    /\ buffer = BootGrid(boot)
    /\ panicked = FALSE
    /\ stores = <<>>
    /\ scrolls = 0
    /\ hist = <<>>
    /\ pre = [column_position |-> 0, color_code |-> 0,
              buffer |-> BootGrid(boot), scrolls |-> 0]
    /\ locked = FALSE
    /\ frames = <<MainFrame>>
    /\ owners = <<>>
    /\ nreq = 0
    /\ nprints = 0
    /\ nentries = 0
    /\ test = NoTest
    /\ inits = 0
    /\ result = "Ok"

SpecPrint == InitPrint /\ [][NextPrint]_vars

\* ------------------------------------------------------------ SpecColor
\* ColorCode::new over all pairs of Colors: a writer is built as the initialiser
\* of WRITER builds it, with the ColorCode of any foreground and background.
NewWriter(foreground, background) ==
    /\ once_incomplete(inits)
    /\ column_position' = WRITER_new.column_position
    /\ color_code' = ColorCode_new(foreground, background)
    /\ inits' = inits + 1
    /\ hist' = Append(hist, [op |-> "ColorCode::new", s |-> <<foreground, background>>,
                              col |-> column_position])
    /\ UNCHANGED <<buffer, panicked, stores, scrolls, pre, boot, result, cvars>>

NextColor == \E foreground, background \in ColorCodes : NewWriter(foreground, background)

SpecColor == InitPrint /\ [][NextColor]_vars

\* ------------------------------------------------------------ reading a state
Acted == Len(hist) > 0
Last == hist[Len(hist)]
LastRow == BUFFER_HEIGHT - 1
OkBytes == Printable \cup {Placeholder}

IsPrintableText(s) == \A i \in 1..Len(s) : s[i] \in Printable

\* the bytes of s that are not newlines, in order
NonNewline(s) == SelectSeq(s, LAMBDA b : b # Newline)

RECURSIVE CursorAfter(_, _, _, _)
\* Where the cursor stands after the bytes lo..hi of s when it stood at col: a
\* newline returns it to 0, any other byte wraps a full row to column 0 first
\* and then moves it on by one (the range is halved, as in write_bytes).
CursorAfter(col, s, lo, hi) ==
    IF lo > hi \/ col < 0 THEN col
    ELSE IF lo = hi
    THEN IF s[lo] = Newline THEN 0
         ELSE (IF col >= BUFFER_WIDTH THEN 0 ELSE col) + 1
    ELSE LET mid == (lo + hi) \div 2
         IN  CursorAfter(CursorAfter(col, s, lo, mid), s, mid + 1, hi)

\* The column each non-newline byte of s[i..] lands in when the cursor stands at
\* col: a full row wraps to column 0 first, a newline returns the cursor to 0.
CursorCols(col, s, i) ==
    LET at == SelectSeq([j \in 1..Len(s) |-> j], LAMBDA j : j >= i /\ s[j] # Newline)
    IN  [n \in 1..Len(at) |->
            LET before == CursorAfter(col, s, i, at[n] - 1)
            IN  IF before >= BUFFER_WIDTH THEN 0 ELSE before]

\* the cell stored i-th in the last operation is in the grid, moved up by the
\* scrolls that followed it (if it has not left the grid)
GridHolds(i) ==
    LET r == stores[i].row - (scrolls - stores[i].gen)
    IN  r \in Rows => buffer[r][stores[i].col] = stores[i].cell

BlankRow(color) == [c \in Cols |-> ScreenChar(Space, color)]

LastIsNewline == Acted /\ Last.s = <<Newline>>

\* ------------------------------------------------------------ claims
\* the call sites that hold the guard of WRITER
Holders == {n \in 1..Len(frames) : frames[n].pc \in {"write", "read"}}

\* a request of the call site is waiting for the lock or writing
Pending(site) ==
    \E n \in 1..Len(frames) : frames[n].site = site /\ frames[n].pc \in {"lock", "write"}
Waiting(site) ==
    \E n \in 1..Len(frames) : frames[n].site = site /\ frames[n].pc = "lock"

\* C1: at most one call site holds the writer at any moment, and the grid
\* writes of each print request are contiguous in the order of all grid writes:
\* no request writes again after another request has written.
C1_MutualExclusion ==
    /\ Cardinality(Holders) <= 1
    /\ Holders # {} => locked
    /\ \A a, b \in 1..Len(owners) : a # b => owners[a] # owners[b]

\* a second request arrives while a request is in the middle of its writes,
\* after an earlier request has written
C1_Witness ==
    /\ Len(frames) >= 2
    /\ frames[1].pc = "write" /\ frames[1].i > 1 /\ frames[1].i <= Len(frames[1].s)
    /\ Top.pc = "lock"
    /\ Len(owners) >= 2

\* C2: a print request of the panic handler, or of another reentrant call site,
\* issued at any point, eventually gets the lock, writes its cells and returns:
\* while such a request waits for the lock, the code that is running can take
\* a step (a state where it cannot is one in which the request waits for ever,
\* as the holder of the lock is below it and runs only after it returns).
C2_ReentrantPrint ==
    \A site \in {"handler", "panic"} : Waiting(site) => ENABLED Run

\* C5: after println!(s) from column 0, each read of test_println_output finds
\* the character of s at (BUFFER_HEIGHT - 2, i), whatever the other call sites
\* print: no assertion of the test fails.
C5_ReadBack ==
    (test.col = 0 /\ test.phase # "none") =>
        /\ test.phase # "failed"
        /\ frames[1].pc = "read" =>
               buffer[BUFFER_HEIGHT - 2][test.k - 1].ascii_character = test.s[test.k]

\* C3 as stated: after a newline every row has moved up by one, the bottom row
\* is blank in the current color, the cursor is at column 0, and the previous
\* content of row 0 appears in no row of the grid.
C3_Original ==
    LastIsNewline =>
        /\ \A r \in 1..LastRow : \A c \in Cols : buffer[r - 1][c] = pre.buffer[r][c]
        /\ \A c \in Cols : buffer[LastRow][c] = ScreenChar(Space, color_code)
        /\ column_position = 0
        /\ \A r \in Rows : buffer[r] # pre.buffer[0]

\* C3 (amended): after a newline every row r in 1..24 has moved to r - 1, the
\* bottom row is blank in the current color and the cursor is at column 0; the
\* previous content of row 0 survives only as a copy that another row already
\* held (or as the blank bottom row), so with 25 distinct non-blank rows it is gone.
C3_Scroll ==
    LastIsNewline =>
        /\ \A r \in 1..LastRow : \A c \in Cols : buffer[r - 1][c] = pre.buffer[r][c]
        /\ \A c \in Cols : buffer[LastRow][c] = ScreenChar(Space, color_code)
        /\ column_position = 0
        /\ \A r \in Rows : buffer[r] = pre.buffer[0] =>
               \/ r < LastRow /\ pre.buffer[r + 1] = pre.buffer[0]
               \/ r = LastRow /\ pre.buffer[0] = BlankRow(color_code)
        /\ ( /\ \A r \in 1..LastRow : pre.buffer[r] # pre.buffer[0]
             /\ pre.buffer[0] # BlankRow(color_code) )
           => \A r \in Rows : buffer[r] # pre.buffer[0]

\* a newline written over 25 rows of distinct content
C3_Witness ==
    /\ LastIsNewline
    /\ \A r1, r2 \in Rows : r1 # r2 => pre.buffer[r1] # pre.buffer[r2]
    /\ scrolls = pre.scrolls + 1
    /\ buffer[0] = pre.buffer[1]

\* C4: 80 printable bytes written from column 0 and then one more printable
\* byte: the 81st byte is at column 0 of the bottom row, the 80 bytes are in row
\* 23 at their columns, and column_position is 1.
C4_Wrap ==
    ( /\ Len(hist) >= 2
      /\ hist[Len(hist) - 1].col = 0
      /\ Len(hist[Len(hist) - 1].s) = BUFFER_WIDTH
      /\ IsPrintableText(hist[Len(hist) - 1].s)
      /\ Len(Last.s) = 1
      /\ Last.s[1] \in Printable )
    => /\ buffer[LastRow][0] = ScreenChar(Last.s[1], color_code)
       /\ \A c \in Cols :
             /\ buffer[LastRow - 1][c] = pre.buffer[LastRow][c]
             /\ buffer[LastRow - 1][c].ascii_character = hist[Len(hist) - 1].s[c + 1]
       /\ column_position = 1
       /\ scrolls = pre.scrolls + 1

\* the full line and one more byte have been written
C4_Witness ==
    /\ Len(hist) >= 2
    /\ hist[Len(hist) - 1].col = 0
    /\ hist[Len(hist) - 1].s = FullLine
    /\ Last.s = <<65>>
    /\ pre.column_position = BUFFER_WIDTH
    /\ buffer[LastRow][0].ascii_character = 65

C8_PassThrough ==
    Acted =>
        LET nn == NonNewline(Last.s)
            cols == CursorCols(pre.column_position, Last.s, 1)
        IN  \A i \in 1..Len(nn) : nn[i] \in Printable =>
                /\ i <= Len(stores)
                /\ stores[i].cell = ScreenChar(nn[i], color_code)
                /\ stores[i].row = LastRow
                /\ stores[i].col = cols[i]
                /\ GridHolds(i)

\* a printable byte has been written at a full row, after the wrap
C8_Witness ==
    /\ Acted
    /\ pre.column_position = BUFFER_WIDTH
    /\ Last.s[1] \in Printable
    /\ Len(stores) >= 1
    /\ buffer[LastRow][0] = ScreenChar(Last.s[1], color_code)

\* the strings written so far, one after the other
RECURSIVE Concat(_, _)
Concat(h, i) == IF i > Len(h) THEN <<>> ELSE h[i].s \o Concat(h, i + 1)

\* C9: "Hello" then " World!" written to the fresh writer spell "Hello World!"
\* at columns 0..11 of row 24, leave the rest of the row as it was, scroll
\* nothing and leave column_position at 12; in general write_string calls with
\* printable newline-free strings of total length n <= 80 put their
\* concatenation at columns 0..n-1 of row 24 and set column_position to n.
C9_Concatenation ==
    /\ hist = << [op |-> "write_string", s |-> Hello, col |-> 0],
                 [op |-> "write_string", s |-> World, col |-> 5] >>
       => /\ \A c \in 0..11 :
                 buffer[LastRow][c] = ScreenChar((Hello \o World)[c + 1], color_code)
          /\ column_position = 12
    /\ ( /\ \A i \in 1..Len(hist) :
               hist[i].op = "write_string" /\ IsPrintableText(hist[i].s)
         /\ Len(Concat(hist, 1)) <= BUFFER_WIDTH )
       => LET text == Concat(hist, 1)
          IN  /\ \A c \in Cols :
                     buffer[LastRow][c] =
                         IF c < Len(text) THEN ScreenChar(text[c + 1], color_code)
                         ELSE BootGrid(boot)[LastRow][c]
              /\ \A r \in 0..(LastRow - 1) : buffer[r] = BootGrid(boot)[r]
              /\ scrolls = 0
              /\ column_position = Len(text)

\* "Hello" and " World!" have been written to the fresh writer
C9_Witness ==
    /\ Len(hist) = 2
    /\ hist[1].s = Hello /\ hist[1].op = "write_string"
    /\ hist[2].s = World /\ hist[2].op = "write_string"
    /\ column_position = 12

\* C10: no access to the grid is out of bounds, however long the output: no
\* index panic occurs, and every cell write_byte stores is at a row in 0..24
\* and a column in 0..79.
C10_InBounds ==
    /\ ~panicked
    /\ \A i \in 1..Len(stores) : stores[i].row \in Rows /\ stores[i].col \in Cols
    /\ column_position \in 0..BUFFER_WIDTH

\* more lines have been written than the grid has rows, and a row was wrapped
C10_Witness ==
    /\ scrolls > 2 * BUFFER_HEIGHT
    /\ \E i \in 1..Len(hist) : hist[i].col = BUFFER_WIDTH /\ hist[i].s[1] # Newline
    /\ Len(stores) > 0

\* the cells the last operation stored after its last new_line
SinceLastScroll == {i \in 1..Len(stores) : stores[i].gen = scrolls}

\* C11: in every state the writer reaches, column_position is in 0..80: the
\* cursor is within the line or at the line boundary. Every new_line leaves the
\* cursor at column 0: after an operation that ran new_line the cursor stands as
\* many columns from 0 as bytes were stored since, and at 0 when the newline
\* was the last byte.
C11_CursorRange ==
    /\ column_position \in Nat
    /\ column_position < BUFFER_WIDTH \/ column_position = BUFFER_WIDTH
    /\ (Acted /\ scrolls > pre.scrolls) =>
           column_position = Cardinality(SinceLastScroll)
    /\ (Acted /\ Last.s[Len(Last.s)] = Newline) => column_position = 0

\* the cursor is at the line boundary after an operation that ran new_line
C11_Witness ==
    /\ Acted
    /\ scrolls > pre.scrolls
    /\ column_position = BUFFER_WIDTH
    /\ Cardinality(SinceLastScroll) = BUFFER_WIDTH

\* a print request has been issued and has not returned
PrintInProgress == \E n \in 1..Len(frames) : frames[n].pc \in {"lock", "write"}
\* test_println_output holds the guard for the read of a cell
ReadInProgress == \E n \in 1..Len(frames) : frames[n].pc = "read"

\* a request that holds the lock has stored at most one cell for each byte it
\* has handled, and it handles each byte of its string once
FinitelyManyWrites ==
    \A n \in 1..Len(frames) : frames[n].pc = "write" =>
        /\ locked
        /\ frames[n].i \in 1..(Len(frames[n].s) + 1)
        /\ Len(stores) <= frames[n].i - 1

\* C12 as stated: a print request holds the lock only while it is in progress
\* and for finitely many cell writes, and whenever no print request is in
\* progress the lock is free.
C12_Original ==
    /\ FinitelyManyWrites
    /\ ~PrintInProgress => ~locked

\* C12 (amended): a print request that has acquired the lock stores finitely
\* many cells (at most one for each byte of its string) and has released the
\* lock when it has returned; whenever no print request is in progress and
\* test_println_output is not holding the guard for a read, the lock is free; a
\* later request of the same caller, none other being in progress, finds it free.
C12_LockRelease ==
    /\ FinitelyManyWrites
    /\ locked => Holders # {}
    /\ (~PrintInProgress /\ ~ReadInProgress) => ~locked
    /\ ( /\ Top.pc = "lock"
         /\ \A n \in 1..(Len(frames) - 1) : frames[n].pc \notin {"lock", "write", "read"} )
       => lock_acquirable(locked)

\* the first print of ordinary code has written and returned, and its second
\* print finds the lock free
C12_Witness ==
    /\ Len(frames) = 1
    /\ nprints = 2
    /\ owners = <<1>>
    /\ Top.pc = "lock"
    /\ Top.id = 2
    /\ ~locked

\* the attribute byte of every pair of colors
ColorTable == [f \in ColorCodes |-> [b \in ColorCodes |-> ColorCode_new(f, b)]]

C14_PlainWriteFrame ==
    /\ ( /\ Acted
         /\ Last.op = "write_byte"
         /\ Last.s[1] # Newline
         /\ pre.column_position < BUFFER_WIDTH )
       => /\ buffer = [pre.buffer EXCEPT ![LastRow][pre.column_position] =
                                              ScreenChar(Last.s[1], pre.color_code)]
          /\ column_position = pre.column_position + 1
          /\ color_code = pre.color_code
          /\ scrolls = pre.scrolls
    /\ (Acted /\ scrolls = pre.scrolls) =>
           \A r \in 0..(LastRow - 1) : buffer[r] = pre.buffer[r]

\* a byte has been written in the middle of the row, over rows of other content
C14_Witness ==
    /\ Acted
    /\ Last.op = "write_byte"
    /\ Last.s = <<65>>
    /\ pre.column_position \in 1..(BUFFER_WIDTH - 1)
    /\ buffer[LastRow][pre.column_position] = ScreenChar(65, color_code)
    /\ buffer[LastRow][pre.column_position] # pre.buffer[LastRow][pre.column_position]
    /\ buffer[LastRow - 1] # buffer[LastRow]

\* one step of the program, as C15 allows it
C15_Step ==
    /\ inits' >= inits /\ inits' <= 1
    /\ inits' # inits =>
           /\ owners = <<>> /\ stores = <<>>
           /\ column_position' = 0
           /\ color_code' = 14
           /\ buffer' = buffer
    /\ (owners' # <<>> \/ locked') => inits' = 1
    /\ (inits = 1 /\ Top.pc # "write") =>
           /\ column_position' = column_position
           /\ color_code' = color_code
           /\ buffer' = buffer

\* C15: whichever call sites race for the first use, the initialiser of WRITER
\* runs once, before any cell is written, and gives column_position 0 and
\* Yellow on Black; it never runs again, and the writer changes only in the
\* writes of the request that holds the lock: a print that ends at column k
\* leaves the next print, by any caller, starting at column k.
C15_Singleton == [][C15_Step]_vars

\* after a print of ordinary code has ended at column 2, the print of another
\* call site has stored its first byte at column 2
C15_Witness ==
    /\ inits = 1
    /\ owners = <<1, 2>>
    /\ Len(frames) = 2
    /\ Top.site = "handler" /\ Top.pc = "write" /\ Top.i = 2
    /\ frames[1].pc = "run"
    /\ scrolls = 0
    /\ column_position = 3
    /\ buffer[LastRow][2].ascii_character = Top.s[1]

\* C16: write_str returns Ok for every string and every state of the writer, so
\* the unwrap in _print does not panic, and no operation of the writer ends in
\* an error: the string handed to _print has been written, a cell for each byte
\* that is not a newline.
C16_Infallible ==
    /\ result = "Ok"
    /\ ~panicked
    /\ (Acted /\ Last.op = "print") =>
           /\ Len(stores) = Len(NonNewline(Last.s))
           /\ \A i \in 1..Len(stores) : GridHolds(i)

\* _print has written a string with bytes outside ASCII
C16_Witness ==
    /\ Acted
    /\ Last.op = "print"
    /\ \E i \in 1..Len(Last.s) : Last.s[i] > 127
    /\ Len(stores) = Len(Last.s)
    /\ result = "Ok"

\* The number of bytes of s[i..] that find the row full when the cursor stands
\* at col: each of them wraps.
WrapCount(col, s, i) ==
    Cardinality({j \in i..Len(s) :
                    s[j] # Newline /\ CursorAfter(col, s, i, j - 1) >= BUFFER_WIDTH})

FilledRow(n) ==
    /\ hist[n].col = 0
    /\ Len(hist[n].s) = BUFFER_WIDTH
    /\ NonNewline(hist[n].s) = hist[n].s

\* C18: filling the bottom row does not scroll: after exactly 80 bytes, none a
\* newline, written from column 0 there has been no scroll and column_position
\* is 80, the line standing in row 24; a newline written next scrolls once: the
\* line is then in row 23 and row 24 is blank.
C18_DeferredWrap ==
    /\ (Acted /\ FilledRow(Len(hist))) =>
           /\ scrolls = pre.scrolls
           /\ column_position = BUFFER_WIDTH
           /\ \A c \in Cols :
                  buffer[LastRow][c] = ScreenChar(filter_byte(Last.s[c + 1]), color_code)
           /\ \A r \in 0..(LastRow - 1) : buffer[r] = pre.buffer[r]
    /\ (Len(hist) >= 2 /\ FilledRow(Len(hist) - 1) /\ Last.s = <<Newline>>) =>
           /\ pre.column_position = BUFFER_WIDTH
           /\ scrolls = pre.scrolls + 1
           /\ \A c \in Cols :
                  buffer[LastRow - 1][c] =
                      ScreenChar(filter_byte(hist[Len(hist) - 1].s[c + 1]), color_code)
           /\ \A r \in 0..(LastRow - 2) : buffer[r] = pre.buffer[r + 1]
           /\ buffer[LastRow] = BlankRow(color_code)
           /\ column_position = 0

\* a full line and then a newline have been written
C18_Witness ==
    /\ Len(hist) >= 2
    /\ hist[Len(hist) - 1].s = FullLine
    /\ FilledRow(Len(hist) - 1)
    /\ Last.s = <<Newline>>
    /\ scrolls = pre.scrolls + 1
    /\ buffer[LastRow - 1][BUFFER_WIDTH - 1].ascii_character = FullLine[BUFFER_WIDTH]
    /\ buffer[LastRow] = BlankRow(color_code)

\* C19: once WRITER is built its color attribute stays 0x0E (Yellow on Black):
\* every cell a request stores carries it, and so does every cell of the grid
\* the writer has written: the bottom row up to the cursor, and every row that
\* began as a cleared row (the bottom row after a scroll, and the rows that
\* have moved up from there).
C19_ConstantColor ==
    inits = 1 =>
        /\ color_code = 14
        /\ \A i \in 1..Len(stores) : stores[i].cell.color_code = 14
        /\ \A c \in 0..(column_position - 1) : buffer[LastRow][c].color_code = 14
        /\ \A r \in Rows : r > LastRow - scrolls =>
               \A c \in Cols : buffer[r][c].color_code = 14

\* a request has stored cells after a row was cleared
C19_Witness ==
    /\ inits = 1
    /\ scrolls > 0
    /\ Len(stores) > 0
    /\ column_position > 0
    /\ buffer[LastRow][0].color_code = 14
    /\ buffer[LastRow][0].ascii_character # Space
    /\ buffer[LastRow][BUFFER_WIDTH - 1] = ScreenChar(Space, 14)
====
